---- MODULE Spec2Model ----
(***************************************************************************)
(* Model of the legacy event-log collector                                 *)
(* (package eventlog, CollectWindowsEventLogs and its helpers) together    *)
(* with the sequential-read log service it talks to.                       *)
(* Main's channel sweep (SpecSweep) calls the collector once per channel.  *)
(*                                                                         *)
(* The byte buffer is kept byte-exact.  A []byte of length n is the record *)
(* [len |-> n, bytes |-> f] where f maps exactly the indices holding a     *)
(* non-zero byte to that byte; every other index below n reads as 0 (Go's  *)
(* make zeroes the allocation).  uint32 values are pairs <<hi16, lo16>> so *)
(* that all 32 bits are kept.                                              *)
(***************************************************************************)
EXTENDS Integers, Sequences, FiniteSets, TLC

\* ------------------------------------------------------------------ bounds
MaxLog == 3            \* records held by the channel
MaxMaxEvents == 2      \* largest positive maxEvents argument tried
MaxFieldLog == 2       \* records held by a channel of field-damaged records
MaxLongLog == 2        \* records held by a channel with an overlong string field
MaxFairLog == 3        \* records held by a channel in the runs checked for termination
FirstChannel == 5       \* position in the configuration of the first channel swept
MaxChannels == 2        \* channels swept
MaxSweepLog == 2        \* records held by a channel of the sweep
MaxSourceLog == 1      \* records held by a channel whose name varies
MaxTimeSteps == 60     \* timestamps tried: 0, TimeStep, ..., MaxTimeSteps * TimeStep
TimeStep == 35000011   \* seconds between two timestamps tried

\* --------------------------------------------------------- program constants
sizeof_EVENTLOGRECORD == 56
InitialBufferSize == 4096
RealignStep == 8
DefaultMaxEvents == 100

VARIABLES
    logName,           \* argument logName
    localComputerName, \* local localComputerName
    maxEvents,         \* argument maxEvents
    specificEventIDs,  \* argument specificEventIDs (sequence of uint32)
    log,               \* service: the records of the channel, oldest first
    srvPos,            \* service: records already handed out on the handle
    pc,                \* position in CollectWindowsEventLogs
    handle,            \* "none" | "open" | "closed"
    deferred,          \* the deferred calls registered so far
    totalRecords,      \* local totalRecords (after capping)
    logs,              \* local logs
    bufferSize,        \* local bufferSize
    buffer,            \* local buffer
    bytesRead,         \* local bytesRead
    bytesNeeded,       \* local bytesNeeded
    offset,            \* local offset of the record walk
    result,            \* returned slice
    err,               \* returned error ("nil" when none)
    calls,             \* history: number of open/count/read/close calls
    lastRead,          \* history: outcome of the latest ReadEventLogW call
    openErrno,         \* history: errno of the open call
    raws,              \* history: raw header EventID of each appended record
    scanned,           \* history: records decoded with a valid length
    grows,             \* history: buffer reallocations
    lateCalls,         \* history: count/read calls made on a closed handle
    countRet,          \* history: outcome of GetNumberOfEventLogRecords
    recordAt,          \* history: offset of the record the walker built last (-1: none in this buffer)
    windowsTime,       \* argument windowsTime of WindowsTimeToTime (-1: no call)
    timeString,        \* the string WindowsTimeToTime returned (<<>>: none yet)
    onlyAvailable,     \* main: flag -available
    specificChannel,   \* main: flag -channel
    channel,           \* main: position of the channel sweep in channelConfigs (0: no sweep)
    output,            \* main: what was written to output, in order
    totalEventsCollected, \* main: local totalEventsCollected
    collected          \* history: the channels CollectWindowsEventLogs returned for

\* the state of main's channel sweep
sweepVars == <<onlyAvailable, specificChannel, channel, output, totalEventsCollected, collected>>

vars == <<sweepVars, logName, localComputerName, maxEvents, specificEventIDs, log, srvPos, pc, handle, deferred,
          totalRecords, logs, bufferSize, buffer, bytesRead, bytesNeeded,
          offset, result, err, calls, lastRead, openErrno, raws, scanned,
          grows, lateCalls, countRet, recordAt, windowsTime, timeString>>

\* ------------------------------------------------------------ uint32 / bytes
U32(n) == <<n \div 65536, n % 65536>>
Lt32(a, b) == a[1] < b[1] \/ (a[1] = b[1] /\ a[2] < b[2])
ToNat(a) == a[1] * 65536 + a[2]
\* a + b in uint32 arithmetic (wraps modulo 2^32)
Add32(a, b) ==
    <<(a[1] + b[1] + ((a[2] + b[2]) \div 65536)) % 65536, (a[2] + b[2]) % 65536>>

LE16(n) == <<n % 256, n \div 256>>
LE32(a) == LE16(a[2]) \o LE16(a[1])

Min(a, b) == IF a < b THEN a ELSE b

ByteAt(buf, i) == IF i \in DOMAIN buf.bytes THEN buf.bytes[i] ELSE 0
ReadU16(buf, i) == ByteAt(buf, i) + 256 * ByteAt(buf, i + 1)
ReadU32(buf, i) == <<ReadU16(buf, i + 2), ReadU16(buf, i)>>

\* make([]byte, n)
MakeBuffer(n) == [len |-> n, bytes |-> [i \in {} |-> 0]]

\* ------------------------------------------------- the records of the channel
\* A record of the channel is described by its header fields, the bytes of its
\* variable region and the number of bytes it really occupies (size); its
\* declared Length is a field like any other and may be damaged.
Header(d) ==
    LE32(d.Length) \o LE32(U32(0)) \o LE32(U32(d.RecordNumber)) \o
    LE32(U32(d.TimeGenerated)) \o LE32(U32(d.TimeWritten)) \o LE32(d.EventID) \o
    LE16(d.EventType) \o LE16(d.NumStrings) \o LE16(d.EventCategory) \o LE16(0) \o
    LE32(d.ClosingRecordNumber) \o LE32(d.StringOffset) \o LE32(U32(0)) \o LE32(U32(0)) \o
    LE32(d.DataLength) \o LE32(d.DataOffset)

\* the bytes of a record from its first byte on; the rest up to size is zero
Dense(d) == Header(d) \o d.tail

\* source "Sr", computer "H", one string "ok" at 68, two data bytes at 76
VarRegion ==
    <<83, 0, 114, 0, 0, 0,  72, 0, 0, 0,  0, 0,
      111, 0, 107, 0, 0, 0,  0, 0,  222, 173,  0, 0>>

Rec(size, length, recno, id, tail) ==
    [size |-> size, Length |-> length, RecordNumber |-> recno,
     TimeGenerated |-> 1700000000, TimeWritten |-> 1700000000,
     EventID |-> id, EventType |-> 4, NumStrings |-> 1, EventCategory |-> 7,
     ClosingRecordNumber |-> U32(0), StringOffset |-> U32(68),
     DataLength |-> U32(2), DataOffset |-> U32(76), tail |-> tail,
     source |-> <<83, 114>>, strings |-> << <<111, 107>> >>, data |-> <<222, 173>>]

RecA   == Rec(80, U32(80), 1, U32(4624), VarRegion)
RecB   == Rec(80, U32(80), 2, U32(4648), VarRegion)
\* severity/facility bits set above the 16-bit identifier 4625
RecC   == Rec(80, U32(80), 3, <<49152, 4625>>, VarRegion)
\* records of the identifiers 1116 and 1
RecDefender == Rec(80, U32(80), 1, U32(1116), VarRegion)
RecSysmon == Rec(80, U32(80), 2, U32(1), VarRegion)
\* a record that does not fit the initial buffer
RecBig == Rec(InitialBufferSize + 8, U32(InitialBufferSize + 8), 4, U32(4625), VarRegion)
\* damaged Length in the record numbered 56
BadNum == Rec(80, <<65535, 65535>>, 56, U32(4624), VarRegion)
\* damaged Length in a record whose size is a multiple of 4 but not of 8
BadOdd == Rec(84, U32(0), 6, U32(4624), VarRegion \o <<0, 0, 0, 0>>)

\* Records whose Length is right and whose other untrusted fields (NumStrings,
\* StringOffset, DataLength, DataOffset, ClosingRecordNumber) are arbitrary
Zeros(n) == [i \in 1..n |-> 0]
Field(size, recno, numStrings, stringOffset, dataLength, dataOffset, closing, tail) ==
    [size |-> size, Length |-> U32(size), RecordNumber |-> recno,
     TimeGenerated |-> 1700000000, TimeWritten |-> 1700000000,
     EventID |-> U32(4624), EventType |-> 4, NumStrings |-> numStrings,
     EventCategory |-> 7, ClosingRecordNumber |-> closing,
     StringOffset |-> stringOffset, DataLength |-> dataLength,
     DataOffset |-> dataOffset, tail |-> tail]

\* the one string "ok" fills the last four bytes of the record: no terminator
NoTerm == Field(80, 11, 1, U32(76), U32(0), U32(0), U32(0),
                SubSeq(VarRegion, 1, 20) \o <<111, 0, 107, 0>>)
\* the same in a record that needs (and then fills) a regrown buffer
NoTermBig == Field(InitialBufferSize + 8, 12, 1, U32(InitialBufferSize + 4), U32(0), U32(0), U32(0),
                   VarRegion \o Zeros(InitialBufferSize + 8 - 56 - 24 - 4) \o <<111, 0, 107, 0>>)
\* three string fields "a", "", "b" and a fourth "c" beyond NumStrings
Multi == Field(80, 13, 3, U32(56), U32(0), U32(0), U32(0),
               <<97, 0, 0, 0,  0, 0,  98, 0, 0, 0,  99, 0, 0, 0>> \o Zeros(10))
\* StringOffset = 2^32 - 4 and DataOffset = 2^32 - 8: offset + field wraps
WrapOff == Field(80, 14, 1, <<65535, 65532>>, U32(4), <<65535, 65528>>, U32(0), VarRegion)
\* DataLength = 2^32 - 1: dataStart + DataLength wraps
WrapLen == Field(80, 15, 1, U32(68), <<65535, 65535>>, U32(76), U32(0), VarRegion)
\* DataLength reaches beyond the record and beyond the buffer
LongData == Field(80, 16, 1, U32(68), U32(InitialBufferSize + 904), U32(76), U32(0), VarRegion)
\* StringOffset = 0 and DataOffset = 0 with NumStrings and DataLength set
ZeroOff == Field(80, 17, 1, U32(0), U32(4), U32(0), U32(0), VarRegion)
\* StringOffset and DataOffset beyond the buffer
PastEnd == Field(80, 18, 1, U32(InitialBufferSize + 904), U32(4), U32(InitialBufferSize + 904),
                 U32(0), VarRegion)
\* ClosingRecordNumber holds the two code units "Sr"
Closing == Field(80, 19, 1, U32(68), U32(2), U32(76), <<114, 83>>, VarRegion)

\* a first string field of 16390 code units "A", then the field "ok"
LongUnits == 16390
LongField == Field(56 + 2 * LongUnits + 12, 20, 2, U32(56), U32(0), U32(0), U32(0),
                   [i \in 1..(2 * LongUnits) |-> IF i % 2 = 1 THEN 65 ELSE 0] \o
                   <<0, 0,  111, 0, 107, 0,  0, 0,  0, 0, 0, 0>>)

\* the records a channel may hold, by name
Template ==
    [RecA |-> RecA, RecB |-> RecB, RecC |-> RecC, RecBig |-> RecBig,
     RecDefender |-> RecDefender, RecSysmon |-> RecSysmon,
     BadNum |-> BadNum, BadOdd |-> BadOdd,
     NoTerm |-> NoTerm, NoTermBig |-> NoTermBig, Multi |-> Multi,
     WrapOff |-> WrapOff, WrapLen |-> WrapLen, LongData |-> LongData,
     ZeroOff |-> ZeroOff, PastEnd |-> PastEnd, Closing |-> Closing,
     LongField |-> LongField]
Names == {"RecA", "RecB", "RecC", "RecBig", "BadNum", "BadOdd"}
FieldNames == {"RecA", "BadOdd", "NoTerm", "NoTermBig", "Multi", "WrapOff", "WrapLen",
               "LongData", "ZeroOff", "PastEnd", "Closing"}
LongNames == {"RecA", "BadNum", "LongField"}

Image == [k \in DOMAIN Template |-> Dense(Template[k])]
NonZero == [k \in DOMAIN Template |-> {j \in 0..(Len(Image[k]) - 1) : Image[k][j + 1] # 0}]
Size(k) == Template[k].size

WellFormed(k) == Template[k].Length = U32(Template[k].size)

RECURSIVE SeqsUpTo(_, _)
SeqsUpTo(S, n) ==
    IF n = 0 THEN {<<>>}
    ELSE LET shorter == SeqsUpTo(S, n - 1)
         IN  shorter \cup {Append(s, x) : s \in {t \in shorter : Len(t) = n - 1}, x \in S}

RECURSIVE ChunkSize(_)
ChunkSize(ds) == IF ds = <<>> THEN 0 ELSE Size(ds[1]) + ChunkSize(Tail(ds))

RECURSIVE ChunkByte(_, _)
ChunkByte(ds, i) ==
    IF ds = <<>> THEN 0
    ELSE IF i < Size(ds[1])
         THEN IF i < Len(Image[ds[1]]) THEN Image[ds[1]][i + 1] ELSE 0
         ELSE ChunkByte(Tail(ds), i - Size(ds[1]))

RECURSIVE ChunkNonZero(_, _)
ChunkNonZero(ds, base) ==
    IF ds = <<>> THEN {}
    ELSE {base + j : j \in NonZero[ds[1]]} \cup ChunkNonZero(Tail(ds), base + Size(ds[1]))

\* The service copies the records ds to the start of the caller's buffer; the
\* bytes behind them keep what an earlier read left there.
Fill(buf, ds) ==
    LET n    == ChunkSize(ds)
        keep == {j \in DOMAIN buf.bytes : j >= n}
    IN  [len   |-> buf.len,
         bytes |-> [i \in ChunkNonZero(ds, 0) \cup keep |->
                        IF i < n THEN ChunkByte(ds, i) ELSE buf.bytes[i]]]

\* ----------------------------------------------------------- the collector
\* record := (*EVENTLOGRECORD)(unsafe.Pointer(&buffer[offset])), little endian
DecodeRecord(buf, off) ==
    [Length        |-> ReadU32(buf, off),
     RecordNumber  |-> ReadU32(buf, off + 8),
     TimeGenerated |-> ReadU32(buf, off + 12),
     TimeWritten   |-> ReadU32(buf, off + 16),
     EventID       |-> ReadU32(buf, off + 20),
     EventType     |-> ReadU16(buf, off + 24),
     NumStrings    |-> ReadU16(buf, off + 26),
     EventCategory |-> ReadU16(buf, off + 28),
     StringOffset  |-> ReadU32(buf, off + 36),
     DataLength    |-> ReadU32(buf, off + 48),
     DataOffset    |-> ReadU32(buf, off + 52)]

\* syscall.UTF16ToString: the code units before the first NUL, decoded to code
\* points (a surrogate pair is one code point, a lone surrogate is U+FFFD)
CutAtNul[s \in Seq(Nat)] ==
    IF s = <<>> \/ s[1] = 0 THEN <<>> ELSE <<s[1]>> \o CutAtNul[Tail(s)]

DecodeUTF16[s \in Seq(Nat)] ==
    IF s = <<>> THEN <<>>
    ELSE IF s[1] >= 55296 /\ s[1] < 56320 /\ Len(s) > 1 /\ s[2] >= 56320 /\ s[2] < 57344
         THEN <<65536 + (s[1] - 55296) * 1024 + (s[2] - 56320)>> \o DecodeUTF16[Tail(Tail(s))]
    ELSE IF s[1] >= 55296 /\ s[1] < 57344
         THEN <<65533>> \o DecodeUTF16[Tail(s)]
    ELSE <<s[1]>> \o DecodeUTF16[Tail(s)]

UTF16ToString(s) == DecodeUTF16[CutAtNul[s]]

\* (*[N]uint16)(unsafe.Pointer(&buffer[start]))[:n]
Units(buf, start, n) == [i \in 1..n |-> ReadU16(buf, start + 2 * (i - 1))]

\* text as the sequence of its code points
Security == <<83, 101, 99, 117, 114, 105, 116, 121>>
System == <<83, 121, 115, 116, 101, 109>>
Application == <<65, 112, 112, 108, 105, 99, 97, 116, 105, 111, 110>>
EventLog == <<69, 118, 101, 110, 116, 76, 111, 103>>
\* "Microsoft-Windows-"
MicrosoftWindows ==
    <<77, 105, 99, 114, 111, 115, 111, 102, 116, 45, 87, 105, 110, 100, 111, 119, 115, 45>>
\* "Microsoft-Windows-Sysmon/Op"
SysmonChannel == MicrosoftWindows \o <<83, 121, 115, 109, 111, 110, 47, 79, 112>>

HasPrefix(s, prefix) == Len(s) >= Len(prefix) /\ SubSeq(s, 1, Len(prefix)) = prefix

\* strings.Split(s, "/")[0]
RECURSIVE FirstPart(_)
FirstPart(s) == IF s = <<>> \/ s[1] = 47 THEN <<>> ELSE <<s[1]>> \o FirstPart(Tail(s))

\* the scan loop of GetSourceFromEvent; yields sourceEnd
RECURSIVE SourceEnd(_, _, _)
SourceEnd(buf, sourceStart, sourceEnd) ==
    IF sourceEnd + 1 < buf.len /\ (ByteAt(buf, sourceEnd) # 0 \/ ByteAt(buf, sourceEnd + 1) # 0)
    THEN IF sourceEnd + 2 - sourceStart > 1024
         THEN sourceEnd + 2
         ELSE SourceEnd(buf, sourceStart, sourceEnd + 2)
    ELSE sourceEnd

\* the fallbacks of GetSourceFromEvent
\* (the whole channel name returned for Microsoft-Windows-* channels)
SourceFallbackWhole(name) ==
    IF name = System \/ name = Application \/ name = Security THEN name
    ELSE IF HasPrefix(name, MicrosoftWindows) THEN name
    ELSE EventLog

SourceFallback(name) ==
    IF name = System \/ name = Application \/ name = Security THEN name
    ELSE IF HasPrefix(name, MicrosoftWindows) THEN FirstPart(name)
    ELSE EventLog

\* sourceStart and sourceEnd after the scan loop
SourceSpan(buf, off) ==
    LET sourceStart == off + 8 * 4
    IN  <<sourceStart, SourceEnd(buf, sourceStart, sourceStart)>>

\* strLen > 0 && strLen < 1024
ConvertsSource(strLen) == strLen > 0 /\ strLen < 1024

GetSourceFromEvent(name, buf, off) ==
    LET sourceStart == SourceSpan(buf, off)[1]
        sourceEnd   == SourceSpan(buf, off)[2]
        strLen      == (sourceEnd - sourceStart) \div 2
        sourceName  == UTF16ToString(Units(buf, sourceStart, strLen))
    IN  IF ConvertsSource(strLen) /\ sourceName # <<>>
        THEN sourceName
        ELSE SourceFallback(name)

\* the scan loop of the string list; yields strEnd.  The loop leaves strEnd at
\* the first position, in steps of two from where it starts, at which its
\* condition fails or at which, just after a step, the safety check breaks.
ScanStops(buf, strStart, e) ==
    \/ ~(e + 1 < buf.len /\ (ByteAt(buf, e) # 0 \/ ByteAt(buf, e + 1) # 0))
    \/ (e > strStart /\ e - strStart > 32768)
StrEnd(buf, strStart, strEnd) ==
    LET steps == CHOOSE k \in 0..(32768 \div 2 + 1) :
                    /\ ScanStops(buf, strStart, strEnd + 2 * k)
                    /\ \A j \in 0..(k - 1) : ~ScanStops(buf, strStart, strEnd + 2 * j)
    IN  strEnd + 2 * steps

\* for i := uint16(0); i < record.NumStrings; i++ { ... }: the fields the loop
\* scans, each as <<strStart, strEnd>>, in the order it scans them
RECURSIVE StringLoop(_, _, _, _, _)
StringLoop(buf, stringsPtr, i, numStrings, acc) ==
    IF ~(i < numStrings) \/ stringsPtr >= buf.len THEN acc
    ELSE LET strEnd == StrEnd(buf, stringsPtr, stringsPtr)
             next   == Append(acc, <<stringsPtr, strEnd>>)
         IN  IF strEnd + 2 >= buf.len THEN next
             ELSE StringLoop(buf, strEnd + 2, i + 1, numStrings, next)

StringFields(record, buf, off) ==
    LET stringsPtr == Add32(U32(off), record.StringOffset)
    IN  IF record.NumStrings > 0 /\ record.StringOffset # U32(0)
           /\ Lt32(stringsPtr, U32(buf.len))
        THEN StringLoop(buf, ToNat(stringsPtr), 0, record.NumStrings, <<>>)
        ELSE <<>>

StrLen(field) == (field[2] - field[1]) \div 2

\* strLen > 0 && strLen < 16384
AppendsString(strLen) == strLen > 0 /\ strLen < 16384

\* the fields whose string is appended
AppendedFields(record, buf, off) ==
    SelectSeq(StringFields(record, buf, off), LAMBDA field : AppendsString(StrLen(field)))

\* event.Strings
GetStrings(record, buf, off) ==
    LET kept == AppendedFields(record, buf, off)
    IN  [i \in 1..Len(kept) |-> UTF16ToString(Units(buf, kept[i][1], StrLen(kept[i])))]

\* (the slice end taken without the clamp to len(buffer))
DataRangeUnclamped(record, buf, off) ==
    LET dataStart == Add32(U32(off), record.DataOffset)
        dataEnd   == Add32(dataStart, record.DataLength)
    IN  IF record.DataLength # U32(0) /\ record.DataOffset # U32(0)
           /\ Lt32(dataStart, U32(buf.len)) /\ Lt32(dataStart, dataEnd)
        THEN <<ToNat(dataStart), ToNat(dataEnd)>>
        ELSE <<0, 0>>

\* (the payload taken also when DataOffset is 0)
DataRangeAnyOffset(record, buf, off) ==
    LET dataStart == Add32(U32(off), record.DataOffset)
        sum       == Add32(dataStart, record.DataLength)
        dataEnd   == IF Lt32(U32(buf.len), sum) THEN U32(buf.len) ELSE sum
    IN  IF record.DataLength # U32(0)
           /\ Lt32(dataStart, U32(buf.len)) /\ Lt32(dataStart, dataEnd)
        THEN <<ToNat(dataStart), ToNat(dataEnd)>>
        ELSE <<0, 0>>

\* dataStart and dataEnd of the slice that is copied (<<0, 0>>: none)
DataRange(record, buf, off) ==
    LET dataStart == Add32(U32(off), record.DataOffset)
        sum       == Add32(dataStart, record.DataLength)
        dataEnd   == IF Lt32(U32(buf.len), sum) THEN U32(buf.len) ELSE sum
    IN  IF record.DataLength # U32(0) /\ record.DataOffset # U32(0)
           /\ Lt32(dataStart, U32(buf.len)) /\ Lt32(dataStart, dataEnd)
        THEN <<ToNat(dataStart), ToNat(dataEnd)>>
        ELSE <<0, 0>>

\* event.Data
GetData(record, buf, off) ==
    LET range == DataRange(record, buf, off)
    IN  [i \in 1..(range[2] - range[1]) |-> ByteAt(buf, range[1] + i - 1)]

\* (the identifier taken without masking)
NoMask(id) == id

\* record.EventID & 0xFFFF
MaskEventID(id) == <<0, id[2]>>

\* event := EventLogData{...} with its Strings and Data
NewEvent(record, buf, off) ==
    [RecordNumber  |-> record.RecordNumber,
     TimeGenerated |-> record.TimeGenerated,
     TimeWritten   |-> record.TimeWritten,
     EventID       |-> MaskEventID(record.EventID),
     EventType     |-> record.EventType,
     EventCategory |-> record.EventCategory,
     SourceName    |-> GetSourceFromEvent(logName, buf, off),
     ComputerName  |-> localComputerName,
     Strings       |-> GetStrings(record, buf, off),
     Data          |-> GetData(record, buf, off)]

\* (the length check without its lower limit)
InvalidLengthNoFloor(record, nread, off) == Lt32(U32(nread - off), record.Length)

\* record.Length < sizeof_EVENTLOGRECORD || record.Length > bytesRead-offset
InvalidLength(record, nread, off) ==
    \/ Lt32(record.Length, U32(sizeof_EVENTLOGRECORD))
    \/ Lt32(U32(nread - off), record.Length)

\* the loop over specificEventIDs
EventIDMatches(event, ids) == \E i \in 1..Len(ids) : event.EventID = ids[i]

\* (a filter that lets every event through)
KeepsAll(event, ids) == TRUE

\* whether the walker appends the event
Keeps(event, ids) == IF Len(ids) > 0 THEN EventIDMatches(event, ids) ELSE TRUE

\* (the event put in front of the earlier ones)
Prepended(l, event) == <<event>> \o l

\* logs = append(logs, event)
Appended(l, event) == Append(l, event)

\* (the count taken without the cap)
Uncapped(maxEv, total) == total

\* if maxEvents > 0 && int(totalRecords) > maxEvents { totalRecords = maxEvents }
CappedTotal(maxEv, total) == IF maxEv > 0 /\ total > maxEv THEN maxEv ELSE total

\* (a walk that never stops at the target)
NeverReached(l, total) == FALSE

\* if len(logs) >= int(totalRecords) { break }
TargetReached(l, total) == Len(l) >= total

\* (one message for every open failure)
OpenErrorSame(errno) == "failed to open event log"

\* fmt.Errorf of the two open failures
OpenError(errno) ==
    IF errno = "ERROR_FILE_NOT_FOUND" THEN "event log not found"
    ELSE "failed to open event log"

\* (the handle kept without the deferred close)
OpenedNoDefer == [handle |-> "open", deferred |-> <<>>, closed |-> 0]

\* handle = ret; defer closeEventLog.Call(handle)
Opened == [handle |-> "open", deferred |-> <<"CloseEventLog">>, closed |-> 0]

\* a return statement: the values returned, then the deferred calls run
Return(res, e, c) ==
    /\ pc' = "done"
    /\ result' = res
    /\ err' = e
    /\ handle' = IF deferred # <<>> THEN "closed" ELSE handle
    /\ calls' = [c EXCEPT !.close = @ + Len(deferred)]
    /\ deferred' = <<>>

\* a count or read call on the handle
OnHandle(c, kind) == [c EXCEPT ![kind] = @ + 1]
Late == IF handle = "open" THEN lateCalls ELSE lateCalls + 1

AllowLists == {<<>>, <<U32(4624), U32(4625)>>}

\* GetLocalComputerName: the name the system reports
ComputerNames == {<<72>>}
LogNames == {Security}
\* "Vendor/Op" and "Custom": channels outside the Microsoft-Windows- family
VendorChannel == <<86, 101, 110, 100, 111, 114, 47, 79, 112>>
CustomChannel == <<67, 117, 115, 116, 111, 109>>
SourceLogNames ==
    {Security, System, Application, SysmonChannel, MicrosoftWindows,
     VendorChannel, CustomChannel, <<>>}
SourceNames == {"RecA", "RecBig", "BadNum", "Closing"}

\* the locals and the history before the first statement
Start ==
    /\ srvPos = 0
    /\ pc = "open"
    /\ handle = "none"
    /\ deferred = <<>>
    /\ totalRecords = 0
    /\ logs = <<>>
    /\ bufferSize = 0
    /\ buffer = MakeBuffer(0)
    /\ bytesRead = 0
    /\ bytesNeeded = 0
    /\ offset = 0
    /\ result = <<>>
    /\ err = "nil"
    /\ calls = [open |-> 0, count |-> 0, read |-> 0, close |-> 0]
    /\ lastRead = "none"
    /\ openErrno = "none"
    /\ raws = <<>>
    /\ scanned = 0
    /\ grows = 0
    /\ lateCalls = 0
    /\ countRet = "none"
    /\ recordAt = -1

\* main is not sweeping: the collector is called on its own
NoSweep ==
    /\ onlyAvailable = TRUE
    /\ specificChannel = <<>>
    /\ channel = 0
    /\ output = <<>>
    /\ totalEventsCollected = 0
    /\ collected = <<>>

\* WindowsTimeToTime has not been called
NoTime == windowsTime = -1 /\ timeString = <<>>

Init ==
    /\ logName \in LogNames
    /\ localComputerName \in ComputerNames
    /\ maxEvents \in (-1)..MaxMaxEvents   \* negative, zero and positive arguments
    /\ specificEventIDs \in AllowLists
    /\ log \in SeqsUpTo(Names, MaxLog)
    /\ Start
    /\ NoTime
    /\ NoSweep

\* the collector run on channels whose records carry arbitrary field values
InitFields ==
    /\ logName \in LogNames
    /\ localComputerName \in ComputerNames
    /\ maxEvents = 0
    /\ specificEventIDs = <<>>
    /\ log \in SeqsUpTo(FieldNames, MaxFieldLog)
    /\ Start
    /\ NoTime
    /\ NoSweep

\* the collector run on channels of several names
InitSource ==
    /\ logName \in SourceLogNames
    /\ localComputerName \in ComputerNames
    /\ maxEvents = 0
    /\ specificEventIDs \in AllowLists
    /\ log \in SeqsUpTo(SourceNames, MaxSourceLog)
    /\ Start
    /\ NoTime
    /\ NoSweep

\* the collector run on channels that hold a record with an overlong string
InitLong ==
    /\ logName \in LogNames
    /\ localComputerName \in ComputerNames
    /\ maxEvents = 0
    /\ specificEventIDs \in AllowLists
    /\ log \in SeqsUpTo(LongNames, MaxLongLog)
    /\ Start
    /\ NoTime
    /\ NoSweep

\* OpenEventLogW returns a handle
OpenOk ==
    /\ pc = "open"
    /\ pc' = "count"
    /\ openErrno' = "ERROR_SUCCESS"
    /\ handle' = Opened.handle
    /\ deferred' = Opened.deferred
    /\ calls' = [calls EXCEPT !.open = @ + 1, !.close = @ + Opened.closed]
    /\ UNCHANGED <<sweepVars, recordAt, countRet, windowsTime, timeString, logName, localComputerName, maxEvents, specificEventIDs, log, srvPos, totalRecords, logs,
                   bufferSize, buffer, bytesRead, bytesNeeded, offset, result,
                   err, lastRead, raws, scanned, grows, lateCalls>>

\* OpenEventLogW returns 0
OpenFail ==
    /\ pc = "open"
    /\ \E errno \in {"ERROR_FILE_NOT_FOUND", "ERROR_ACCESS_DENIED"} :
          /\ openErrno' = errno
          /\ Return(<<>>, OpenError(errno), [calls EXCEPT !.open = @ + 1])
    /\ UNCHANGED <<sweepVars, recordAt, countRet, windowsTime, timeString, logName, localComputerName, maxEvents, specificEventIDs, log, srvPos, totalRecords, logs,
                   bufferSize, buffer, bytesRead, bytesNeeded, offset,
                   lastRead, raws, scanned, grows, lateCalls>>

\* GetNumberOfEventLogRecords succeeds; the cap; the first buffer
CountOk ==
    /\ pc = "count"
    /\ pc' = "read"
    /\ totalRecords' = CappedTotal(maxEvents, Len(log))
    /\ logs' = <<>>
    /\ bufferSize' = InitialBufferSize
    /\ buffer' = MakeBuffer(InitialBufferSize)
    /\ calls' = OnHandle(calls, "count")
    /\ countRet' = "nonzero"
    /\ lateCalls' = Late
    /\ UNCHANGED <<sweepVars, recordAt, windowsTime, timeString, logName, localComputerName, maxEvents, specificEventIDs, log, srvPos, handle, deferred,
                   bytesRead, bytesNeeded, offset, result, err, lastRead,
                   openErrno, raws, scanned, grows>>

\* (the count failure swallowed: an empty result and no error)
CountErrorNil == [result |-> <<>>, err |-> "nil"]

\* return nil, fmt.Errorf("failed to get number of event log records: %v", err)
CountError == [result |-> <<>>, err |-> "failed to get number of event log records"]

\* GetNumberOfEventLogRecords returns 0
CountFail ==
    /\ pc = "count"
    /\ Return(CountError.result, CountError.err, OnHandle(calls, "count"))
    /\ countRet' = "zero"
    /\ lateCalls' = Late
    /\ UNCHANGED <<sweepVars, recordAt, windowsTime, timeString, logName, localComputerName, maxEvents, specificEventIDs, log, srvPos, totalRecords, logs,
                   bufferSize, buffer, bytesRead, bytesNeeded, offset, lastRead,
                   openErrno, raws, scanned, grows>>

\* for len(logs) < int(totalRecords) is false: return logs, nil
LoopExit ==
    /\ pc = "read"
    /\ ~(Len(logs) < totalRecords)
    /\ Return(logs, "nil", calls)
    /\ UNCHANGED <<sweepVars, recordAt, countRet, windowsTime, timeString, logName, localComputerName, maxEvents, specificEventIDs, log, srvPos, totalRecords, logs,
                   bufferSize, buffer, bytesRead, bytesNeeded, offset, lastRead,
                   openErrno, raws, scanned, grows, lateCalls>>

\* (the retry with a buffer of the initial size again)
NotRegrown(needed) ==
    [pc |-> "read", bufferSize |-> InitialBufferSize, buffer |-> MakeBuffer(InitialBufferSize)]

\* (the retry with a buffer of no bytes)
RegrownEmpty(needed) == [pc |-> "read", bufferSize |-> 0, buffer |-> MakeBuffer(0)]

\* what the loop does after ERROR_INSUFFICIENT_BUFFER: bufferSize =
\* bytesNeeded; buffer = make([]byte, bufferSize); continue
Regrown(needed) == [pc |-> "read", bufferSize |-> needed, buffer |-> MakeBuffer(needed)]

\* (end of log reported as a failure)
EndOfLogAsError(l) == [result |-> l, err |-> "error reading event log"]

\* errno == ERROR_NO_MORE_ITEMS: break, then return logs, nil
EndOfLog(l) == [result |-> l, err |-> "nil"]

\* (the records dropped on a read failure)
ReadErrorNoLogs(l) == [result |-> <<>>, err |-> "error reading event log"]

\* return logs, fmt.Errorf("error reading event log: %v", err)
ReadError(l) == [result |-> l, err |-> "error reading event log"]

\* ReadEventLogW succeeds: the service hands out the next n whole records, as
\* many as it chooses among those that fit the caller's buffer
ReadSuccess ==
    /\ pc = "read"
    /\ Len(logs) < totalRecords
    /\ \E n \in 1..(Len(log) - srvPos) :
          LET ds == SubSeq(log, srvPos + 1, srvPos + n)
          IN  /\ ChunkSize(ds) <= bufferSize
              /\ buffer' = Fill(buffer, ds)
              /\ bytesRead' = ChunkSize(ds)
              /\ srvPos' = srvPos + n
    /\ offset' = 0
    /\ pc' = "walk"
    /\ calls' = OnHandle(calls, "read")
    /\ lateCalls' = Late
    /\ lastRead' = "ERROR_SUCCESS"
    /\ recordAt' = -1
    /\ UNCHANGED <<sweepVars, countRet, windowsTime, timeString, logName, localComputerName, maxEvents, specificEventIDs, log, handle, deferred,
                   totalRecords, logs, bufferSize, bytesNeeded, result, err,
                   openErrno, raws, scanned, grows>>

\* ReadEventLogW fails with ERROR_NO_MORE_ITEMS: break, then return logs, nil
ReadNoMoreItems ==
    /\ pc = "read"
    /\ Len(logs) < totalRecords
    /\ srvPos = Len(log)
    /\ lastRead' = "ERROR_NO_MORE_ITEMS"
    /\ Return(EndOfLog(logs).result, EndOfLog(logs).err, OnHandle(calls, "read"))
    /\ lateCalls' = Late
    /\ UNCHANGED <<sweepVars, recordAt, countRet, windowsTime, timeString, logName, localComputerName, maxEvents, specificEventIDs, log, srvPos, totalRecords, logs,
                   bufferSize, buffer, bytesRead, bytesNeeded, offset,
                   openErrno, raws, scanned, grows>>

\* ReadEventLogW fails with ERROR_INSUFFICIENT_BUFFER: the next record does not
\* fit, the service reports its size and hands nothing out
ReadInsufficient ==
    /\ pc = "read"
    /\ Len(logs) < totalRecords
    /\ srvPos < Len(log)
    /\ Size(log[srvPos + 1]) > bufferSize
    /\ bytesNeeded' = Size(log[srvPos + 1])
    /\ pc' = Regrown(bytesNeeded').pc
    /\ bufferSize' = Regrown(bytesNeeded').bufferSize
    /\ buffer' = Regrown(bytesNeeded').buffer
    /\ grows' = grows + 1
    /\ calls' = OnHandle(calls, "read")
    /\ lateCalls' = Late
    /\ lastRead' = "ERROR_INSUFFICIENT_BUFFER"
    /\ recordAt' = -1
    /\ UNCHANGED <<sweepVars, countRet, windowsTime, timeString, logName, localComputerName, maxEvents, specificEventIDs, log, srvPos, handle, deferred,
                   totalRecords, logs, bytesRead, offset, result, err,
                   openErrno, raws, scanned>>

\* ReadEventLogW fails with any other error: return logs, error
ReadFailed ==
    /\ pc = "read"
    /\ Len(logs) < totalRecords
    /\ lastRead' = "ERROR_OTHER"
    /\ Return(ReadError(logs).result, ReadError(logs).err, OnHandle(calls, "read"))
    /\ lateCalls' = Late
    /\ UNCHANGED <<sweepVars, recordAt, countRet, windowsTime, timeString, logName, localComputerName, maxEvents, specificEventIDs, log, srvPos, totalRecords, logs,
                   bufferSize, buffer, bytesRead, bytesNeeded, offset,
                   openErrno, raws, scanned, grows>>

\* the record walk ends: offset >= bytesRead, or no room for a header
WalkEnd ==
    /\ pc = "walk"
    /\ \/ ~(offset < bytesRead)
       \/ offset + sizeof_EVENTLOGRECORD > bytesRead
    /\ pc' = "read"
    /\ UNCHANGED <<sweepVars, recordAt, countRet, windowsTime, timeString, logName, localComputerName, maxEvents, specificEventIDs, log, srvPos, handle, deferred,
                   totalRecords, logs, bufferSize, buffer, bytesRead,
                   bytesNeeded, offset, result, err, calls, lastRead,
                   openErrno, raws, scanned, grows, lateCalls>>

\* one iteration on a record whose declared length is invalid
WalkCorrupt ==
    /\ pc = "walk"
    /\ offset < bytesRead
    /\ ~(offset + sizeof_EVENTLOGRECORD > bytesRead)
    /\ InvalidLength(DecodeRecord(buffer, offset), bytesRead, offset)
    /\ offset' = offset + RealignStep
    /\ pc' = IF offset' >= bytesRead THEN "read" ELSE "walk"
    /\ UNCHANGED <<sweepVars, recordAt, countRet, windowsTime, timeString, logName, localComputerName, maxEvents, specificEventIDs, log, srvPos, handle, deferred,
                   totalRecords, logs, bufferSize, buffer, bytesRead,
                   bytesNeeded, result, err, calls, lastRead, openErrno, raws,
                   scanned, grows, lateCalls>>

\* one iteration on a record whose declared length is valid
WalkRecord ==
    /\ pc = "walk"
    /\ offset < bytesRead
    /\ ~(offset + sizeof_EVENTLOGRECORD > bytesRead)
    /\ \E record \in {DecodeRecord(buffer, offset)} :
          /\ ~InvalidLength(record, bytesRead, offset)
          /\ \E event \in {NewEvent(record, buffer, offset)} :
                \E keep \in {Keeps(event, specificEventIDs)} :
                   /\ logs' = IF keep THEN Appended(logs, event) ELSE logs
                   /\ raws' = IF keep THEN Append(raws, record.EventID) ELSE raws
          /\ offset' = offset + ToNat(record.Length)
    /\ scanned' = scanned + 1
    /\ recordAt' = offset
    /\ pc' = IF TargetReached(logs', totalRecords) THEN "read" ELSE "walk"
    /\ UNCHANGED <<sweepVars, countRet, windowsTime, timeString, logName, localComputerName, maxEvents, specificEventIDs, log, srvPos, handle, deferred,
                   totalRecords, bufferSize, buffer, bytesRead, bytesNeeded,
                   result, err, calls, lastRead, openErrno, grows, lateCalls>>

Next ==
    \/ OpenOk
    \/ OpenFail
    \/ CountOk
    \/ CountFail
    \/ LoopExit
    \/ ReadSuccess
    \/ ReadNoMoreItems
    \/ ReadInsufficient
    \/ ReadFailed
    \/ WalkEnd
    \/ WalkCorrupt
    \/ WalkRecord

Spec == Init /\ [][Next]_vars
SpecFields == InitFields /\ [][Next]_vars
SpecLong == InitLong /\ [][Next]_vars
SpecSource == InitSource /\ [][Next]_vars

\* The collector is one sequential call: it takes its next step as long as it
\* has one, and every call into the service returns.  The runs checked for
\* termination filter by an allow-list, so that reads can add nothing.
FairNames == {"RecA", "RecB", "RecBig", "BadOdd"}
InitFair ==
    /\ logName \in LogNames
    /\ localComputerName \in ComputerNames
    /\ maxEvents \in {0, MaxFairLog - 1}
    /\ specificEventIDs = <<U32(4624), U32(4625)>>
    /\ log \in SeqsUpTo(FairNames, MaxFairLog)
    /\ Start
    /\ NoTime
    /\ NoSweep
SpecFair == InitFair /\ [][Next]_vars /\ WF_vars(Next)

\* ------------------------------------------------------- WindowsTimeToTime
\* The arguments tried are below 2^31, where t.Sec = int32(unixTime) is the
\* argument itself.  The string "%04d-%02d-%02d %02d:%02d:%02d" is kept as
\* the six numbers it prints.
WindowsTimeToTime(t) ==
    <<1970 + t \div 31536000,
      (t % 31536000) \div 2592000 + 1,
      ((t % 31536000) % 2592000) \div 86400 + 1,
      (((t % 31536000) % 2592000) % 86400) \div 3600,
      ((((t % 31536000) % 2592000) % 86400) % 3600) \div 60,
      ((((t % 31536000) % 2592000) % 86400) % 3600) % 60>>

TimeInputs == {1700000000} \cup {k * TimeStep : k \in 0..MaxTimeSteps}

InitTime ==
    /\ logName \in LogNames
    /\ localComputerName \in ComputerNames
    /\ maxEvents = 0
    /\ specificEventIDs = <<>>
    /\ log = <<>>
    /\ Start
    /\ windowsTime \in TimeInputs
    /\ timeString = <<>>
    /\ NoSweep

\* eventlog.WindowsTimeToTime(log.TimeGenerated)
Convert ==
    /\ timeString = <<>>
    /\ timeString' = WindowsTimeToTime(windowsTime)
    /\ UNCHANGED <<sweepVars, logName, localComputerName, maxEvents, specificEventIDs, log, srvPos, pc,
                   handle, deferred, totalRecords, logs, bufferSize, buffer, bytesRead,
                   bytesNeeded, offset, result, err, calls, lastRead, openErrno, raws,
                   scanned, grows, lateCalls, countRet, recordAt, windowsTime>>

NextTime == Convert
SpecTime == InitTime /\ [][NextTime]_vars

\* ------------------------------------------------- main: the channel sweep
\* the channel names of GetChannelConfigs, as code points
\* "Microsoft-Windows-PowerShell/Operational"
PowerShellChannel ==
    <<77, 105, 99, 114, 111, 115, 111, 102, 116, 45, 87, 105, 110, 100, 111, 119, 115,
      45, 80, 111, 119, 101, 114, 83, 104, 101, 108, 108, 47, 79, 112, 101, 114, 97,
      116, 105, 111, 110, 97, 108>>
\* "Microsoft-Windows-Windows Defender/Operational"
DefenderChannel ==
    <<77, 105, 99, 114, 111, 115, 111, 102, 116, 45, 87, 105, 110, 100, 111, 119, 115,
      45, 87, 105, 110, 100, 111, 119, 115, 32, 68, 101, 102, 101, 110, 100, 101, 114,
      47, 79, 112, 101, 114, 97, 116, 105, 111, 110, 97, 108>>
\* "Microsoft-Windows-Sysmon/Operational"
SysmonOperational ==
    <<77, 105, 99, 114, 111, 115, 111, 102, 116, 45, 87, 105, 110, 100, 111, 119, 115,
      45, 83, 121, 115, 109, 111, 110, 47, 79, 112, 101, 114, 97, 116, 105, 111, 110,
      97, 108>>
\* "Microsoft-Windows-TerminalServices-LocalSessionManager/Operational"
SessionManagerChannel ==
    <<77, 105, 99, 114, 111, 115, 111, 102, 116, 45, 87, 105, 110, 100, 111, 119, 115,
      45, 84, 101, 114, 109, 105, 110, 97, 108, 83, 101, 114, 118, 105, 99, 101, 115,
      45, 76, 111, 99, 97, 108, 83, 101, 115, 115, 105, 111, 110, 77, 97, 110, 97, 103,
      101, 114, 47, 79, 112, 101, 114, 97, 116, 105, 111, 110, 97, 108>>
\* "Microsoft-Windows-TaskScheduler/Operational"
TaskSchedulerChannel ==
    <<77, 105, 99, 114, 111, 115, 111, 102, 116, 45, 87, 105, 110, 100, 111, 119, 115,
      45, 84, 97, 115, 107, 83, 99, 104, 101, 100, 117, 108, 101, 114, 47, 79, 112,
      101, 114, 97, 116, 105, 111, 110, 97, 108>>
\* "Microsoft-Windows-GroupPolicy/Operational"
GroupPolicyChannel ==
    <<77, 105, 99, 114, 111, 115, 111, 102, 116, 45, 87, 105, 110, 100, 111, 119, 115,
      45, 71, 114, 111, 117, 112, 80, 111, 108, 105, 99, 121, 47, 79, 112, 101, 114,
      97, 116, 105, 111, 110, 97, 108>>
\* "Microsoft-Windows-Windows Firewall With Advanced Security/Firewall"
FirewallChannel ==
    <<77, 105, 99, 114, 111, 115, 111, 102, 116, 45, 87, 105, 110, 100, 111, 119, 115,
      45, 87, 105, 110, 100, 111, 119, 115, 32, 70, 105, 114, 101, 119, 97, 108, 108,
      32, 87, 105, 116, 104, 32, 65, 100, 118, 97, 110, 99, 101, 100, 32, 83, 101, 99,
      117, 114, 105, 116, 121, 47, 70, 105, 114, 101, 119, 97, 108, 108>>

\* an allow-list as the []uint32 it is
IDs(list) == [i \in 1..Len(list) |-> U32(list[i])]

\* config.GetChannelConfigs()
GetChannelConfigs ==
    << [Name |-> Security, Purpose |-> "User logins, privilege escalation",
        EventIDs |-> IDs(<<4624, 4625, 4672, 4688, 4720, 4768>>),
        Available |-> TRUE],
       [Name |-> System, Purpose |-> "System changes, service failures",
        EventIDs |-> IDs(<<6005, 6006, 7000, 7001, 7002, 7003, 7004, 7005, 7006, 7007, 7008,
                          7009, 7010, 7011, 7012, 7013, 7014, 7015, 7016, 7017, 7018, 7019,
                          7020, 7021, 7022, 7023, 7045, 1102>>),
        Available |-> TRUE],
       [Name |-> Application, Purpose |-> "App crashes, service failures",
        EventIDs |-> IDs(<<1000, 7034, 5000>>),
        Available |-> TRUE],
       [Name |-> PowerShellChannel, Purpose |-> "PowerShell execution tracking",
        EventIDs |-> IDs(<<4103, 4104, 4105, 4106>>),
        Available |-> TRUE],
       [Name |-> DefenderChannel, Purpose |-> "Malware detection",
        EventIDs |-> IDs(<<1006, 1116, 5007>>),
        Available |-> TRUE],
       [Name |-> SysmonOperational, Purpose |-> "Process and network monitoring",
        EventIDs |-> IDs(<<1, 3, 7, 11, 13>>),
        Available |-> FALSE],
       [Name |-> SessionManagerChannel, Purpose |-> "RDP connections",
        EventIDs |-> IDs(<<21, 24, 25>>),
        Available |-> TRUE],
       [Name |-> TaskSchedulerChannel, Purpose |-> "Scheduled task creation",
        EventIDs |-> IDs(<<106, 140, 141>>),
        Available |-> TRUE],
       [Name |-> GroupPolicyChannel, Purpose |-> "GPO changes",
        EventIDs |-> IDs(<<1502, 1503>>),
        Available |-> TRUE],
       [Name |-> FirewallChannel, Purpose |-> "Network connections, rule changes",
        EventIDs |-> IDs(<<2004, 2006, 5156, 5152>>),
        Available |-> TRUE] >>

\* The sweep is followed over MaxChannels consecutive channels of the
\* configuration, from the channel at position FirstChannel on.
channelConfigs ==
    SubSeq(GetChannelConfigs, FirstChannel,
           Min(FirstChannel + MaxChannels - 1, Len(GetChannelConfigs)))

\* strings.EqualFold on the ASCII names tried
ToLower(c) == IF c >= 65 /\ c <= 90 THEN c + 32 ELSE c
EqualFold(a, b) == Len(a) = Len(b) /\ \A i \in 1..Len(a) : ToLower(a[i]) = ToLower(b[i])

\* the two continue statements at the head of the loop body
Skipped(channelConfig) ==
    \/ onlyAvailable /\ ~channelConfig.Available
    \/ specificChannel # <<>> /\ ~EqualFold(channelConfig.Name, specificChannel)

\* GetEventTypeName
EVENTLOG_SUCCESS == 0
EVENTLOG_ERROR_TYPE == 1
EVENTLOG_WARNING_TYPE == 2
EVENTLOG_INFORMATION_TYPE == 4
EVENTLOG_AUDIT_SUCCESS == 8
EVENTLOG_AUDIT_FAILURE == 16
GetEventTypeName(eventType) ==
    IF eventType = EVENTLOG_SUCCESS THEN <<"Success">>
    ELSE IF eventType = EVENTLOG_ERROR_TYPE THEN <<"Error">>
    ELSE IF eventType = EVENTLOG_WARNING_TYPE THEN <<"Warning">>
    ELSE IF eventType = EVENTLOG_INFORMATION_TYPE THEN <<"Information">>
    ELSE IF eventType = EVENTLOG_AUDIT_SUCCESS THEN <<"Audit Success">>
    ELSE IF eventType = EVENTLOG_AUDIT_FAILURE THEN <<"Audit Failure">>
    ELSE <<"Unknown", eventType>>

\* formatter.FormatLogEntry: the values its lines print, in order
FormatLogEntry(entry, index) ==
    [Log      |-> index + 1,
     Source   |-> entry.SourceName,
     Computer |-> entry.ComputerName,
     EventID  |-> ToNat(entry.EventID),
     Type     |-> GetEventTypeName(entry.EventType),
     Category |-> entry.EventCategory,
     Time     |-> WindowsTimeToTime(ToNat(entry.TimeGenerated)),
     Messages |-> entry.Strings]

\* formatter.FormatLogChannel: the count line, then the entries or the
\* no-matching-events line, then the rule
FormatLogChannel(name, entries) ==
    [kind    |-> "logs",
     channel |-> name,
     found   |-> Len(entries),
     body    |-> IF Len(entries) = 0 THEN <<"No matching events found">>
                 ELSE [i \in 1..Len(entries) |-> FormatLogEntry(entries[i], i - 1)]]

\* what main writes around a collection
HeaderMsg == [kind |-> "header"]
CollectionMsg(channelConfig) ==
    [kind |-> "collecting", channel |-> channelConfig.Name, purpose |-> channelConfig.Purpose]
EventIDsMsg(channelConfig) ==
    [kind |-> "event ids",
     ids  |-> [i \in 1..Len(channelConfig.EventIDs) |-> ToNat(channelConfig.EventIDs[i])]]
ErrMsg(name, e) == [kind |-> "error", channel |-> name, err |-> e]
Summary(total) == [kind |-> "summary", total |-> total]

\* (the sweep given up at the first failing channel)
Abort(position) == Len(channelConfigs) + 1

\* continue: the loop goes on with the next channel
Continue(position) == position + 1

\* -available and -channel as given on the command line
SpecificChannels ==
    {<<>>, [i \in 1..Len(DefenderChannel) |-> ToLower(DefenderChannel[i])], CustomChannel}

SweepNames == {"RecDefender", "RecSysmon", "RecBig", "BadOdd"}

\* main at the head of its loop, the header written
InitSweep ==
    /\ logName = <<>>
    /\ localComputerName \in ComputerNames
    /\ maxEvents = DefaultMaxEvents
    /\ specificEventIDs = <<>>
    /\ log = <<>>
    /\ srvPos = 0
    /\ pc = "idle"
    /\ handle = "none"
    /\ deferred = <<>>
    /\ totalRecords = 0
    /\ logs = <<>>
    /\ bufferSize = 0
    /\ buffer = MakeBuffer(0)
    /\ bytesRead = 0
    /\ bytesNeeded = 0
    /\ offset = 0
    /\ result = <<>>
    /\ err = "nil"
    /\ calls = [open |-> 0, count |-> 0, read |-> 0, close |-> 0]
    /\ lastRead = "none"
    /\ openErrno = "none"
    /\ raws = <<>>
    /\ scanned = 0
    /\ grows = 0
    /\ lateCalls = 0
    /\ countRet = "none"
    /\ recordAt = -1
    /\ NoTime
    /\ onlyAvailable \in BOOLEAN
    /\ specificChannel \in SpecificChannels
    /\ channel = 1
    /\ output = <<HeaderMsg>>
    /\ totalEventsCollected = 0
    /\ collected = <<>>

\* one of the two continue statements at the head of the loop body
SweepSkip ==
    /\ pc = "idle"
    /\ channel <= Len(channelConfigs)
    /\ Skipped(channelConfigs[channel])
    /\ channel' = channel + 1
    /\ UNCHANGED <<onlyAvailable, specificChannel, output, totalEventsCollected, collected,
                   recordAt, countRet, windowsTime, timeString, logName,
                   localComputerName, maxEvents, specificEventIDs, log, srvPos, pc,
                   handle, deferred, totalRecords, logs, bufferSize, buffer,
                   bytesRead, bytesNeeded, offset, result, err, calls, lastRead,
                   openErrno, raws, scanned, grows, lateCalls>>

\* the two messages, then the call of CollectWindowsEventLogs on a channel
\* that holds whatever records the service has for it
SweepCall ==
    /\ pc = "idle"
    /\ channel <= Len(channelConfigs)
    /\ ~Skipped(channelConfigs[channel])
    /\ output' = output \o <<CollectionMsg(channelConfigs[channel]),
                             EventIDsMsg(channelConfigs[channel])>>
    /\ logName' = channelConfigs[channel].Name
    /\ specificEventIDs' = channelConfigs[channel].EventIDs
    /\ log' \in SeqsUpTo(SweepNames, MaxSweepLog)
    /\ srvPos' = 0
    /\ pc' = "open"
    /\ handle' = "none"
    /\ deferred' = <<>>
    /\ totalRecords' = 0
    /\ logs' = <<>>
    /\ bufferSize' = 0
    /\ buffer' = MakeBuffer(0)
    /\ bytesRead' = 0
    /\ bytesNeeded' = 0
    /\ offset' = 0
    /\ result' = <<>>
    /\ err' = "nil"
    /\ calls' = [open |-> 0, count |-> 0, read |-> 0, close |-> 0]
    /\ lastRead' = "none"
    /\ openErrno' = "none"
    /\ raws' = <<>>
    /\ scanned' = 0
    /\ grows' = 0
    /\ lateCalls' = 0
    /\ countRet' = "none"
    /\ recordAt' = -1
    /\ UNCHANGED <<onlyAvailable, specificChannel, channel, totalEventsCollected, collected,
                   windowsTime, timeString, localComputerName, maxEvents>>

\* if err != nil: the error message, then continue
SweepError ==
    /\ pc = "done"
    /\ channel >= 1
    /\ err # "nil"
    /\ output' = Append(output, ErrMsg(logName, err))
    /\ channel' = Continue(channel)
    /\ collected' = Append(collected, [channel |-> channel, len |-> Len(result), err |-> err])
    /\ pc' = "idle"
    /\ UNCHANGED <<onlyAvailable, specificChannel, totalEventsCollected,
                   recordAt, countRet, windowsTime, timeString, logName,
                   localComputerName, maxEvents, specificEventIDs, log, srvPos,
                   handle, deferred, totalRecords, logs, bufferSize, buffer,
                   bytesRead, bytesNeeded, offset, result, err, calls, lastRead,
                   openErrno, raws, scanned, grows, lateCalls>>

\* the formatted logs written, totalEventsCollected += len(logs)
SweepWrite ==
    /\ pc = "done"
    /\ channel >= 1
    /\ err = "nil"
    /\ output' = Append(output, FormatLogChannel(logName, result))
    /\ totalEventsCollected' = totalEventsCollected + Len(result)
    /\ channel' = channel + 1
    /\ collected' = Append(collected, [channel |-> channel, len |-> Len(result), err |-> err])
    /\ pc' = "idle"
    /\ UNCHANGED <<onlyAvailable, specificChannel,
                   recordAt, countRet, windowsTime, timeString, logName,
                   localComputerName, maxEvents, specificEventIDs, log, srvPos,
                   handle, deferred, totalRecords, logs, bufferSize, buffer,
                   bytesRead, bytesNeeded, offset, result, err, calls, lastRead,
                   openErrno, raws, scanned, grows, lateCalls>>

\* after the loop: the summary
SweepSummary ==
    /\ pc = "idle"
    /\ channel > Len(channelConfigs)
    /\ output' = Append(output, Summary(totalEventsCollected))
    /\ pc' = "end"
    /\ UNCHANGED <<onlyAvailable, specificChannel, channel, totalEventsCollected, collected,
                   recordAt, countRet, windowsTime, timeString, logName,
                   localComputerName, maxEvents, specificEventIDs, log, srvPos,
                   handle, deferred, totalRecords, logs, bufferSize, buffer,
                   bytesRead, bytesNeeded, offset, result, err, calls, lastRead,
                   openErrno, raws, scanned, grows, lateCalls>>

NextSweep ==
    \/ SweepSkip
    \/ SweepCall
    \/ OpenOk
    \/ OpenFail
    \/ CountOk
    \/ CountFail
    \/ LoopExit
    \/ ReadSuccess
    \/ ReadNoMoreItems
    \/ ReadInsufficient
    \/ ReadFailed
    \/ WalkEnd
    \/ WalkCorrupt
    \/ WalkRecord
    \/ SweepError
    \/ SweepWrite
    \/ SweepSummary

SpecSweep == InitSweep /\ [][NextSweep]_vars


\* ------------------------------------------------ what the channel holds
\* The statements below are written against the records of the channel as the
\* service holds them, not against what the collector decoded.
SeqRange(q) == {q[i] : i \in 1..Len(q)}
LowBits(id) == <<0, id[2]>>
Accepted(k) ==
    specificEventIDs = <<>> \/ LowBits(Template[k].EventID) \in SeqRange(specificEventIDs)
AllWellFormed(l) == \A i \in 1..Len(l) : WellFormed(l[i])

\* the header fields, strings and payload a well-formed record carries
Content(k) ==
    [RecordNumber  |-> U32(Template[k].RecordNumber),
     TimeGenerated |-> U32(Template[k].TimeGenerated),
     TimeWritten   |-> U32(Template[k].TimeWritten),
     EventID       |-> LowBits(Template[k].EventID),
     EventType     |-> Template[k].EventType,
     EventCategory |-> Template[k].EventCategory,
     Strings       |-> Template[k].strings,
     Data          |-> Template[k].data]
ContentOf(event) ==
    [RecordNumber  |-> event.RecordNumber,
     TimeGenerated |-> event.TimeGenerated,
     TimeWritten   |-> event.TimeWritten,
     EventID       |-> event.EventID,
     EventType     |-> event.EventType,
     EventCategory |-> event.EventCategory,
     Strings       |-> event.Strings,
     Data          |-> event.Data]
Contents(events) == [i \in 1..Len(events) |-> ContentOf(events[i])]

RECURSIVE AcceptedOf(_)
AcceptedOf(l) ==
    IF l = <<>> THEN <<>>
    ELSE (IF Accepted(l[1]) THEN <<Content(l[1])>> ELSE <<>>) \o AcceptedOf(Tail(l))

Target == IF maxEvents > 0 /\ Len(log) > maxEvents THEN maxEvents ELSE Len(log)
FirstK(q, k) == SubSeq(q, 1, Min(k, Len(q)))
Returned == pc = "done"
ReturnedNil == pc = "done" /\ err = "nil"

\* ------------------------------------------------------------------ claims

\* C1: every record of the result carries the raw header event id with only
\* its low 16 bits kept, whatever the high bits of the raw value, and it is
\* this masked value that was compared with the allow-list.
Thm_C1 ==
    /\ Len(raws) = Len(logs)
    /\ \A i \in 1..Len(logs) :
          /\ logs[i].EventID[1] = 0
          /\ logs[i].EventID[2] = raws[i][2]
          /\ specificEventIDs # <<>> => <<0, raws[i][2]>> \in SeqRange(specificEventIDs)
    /\ Returned /\ calls.read > 0 => result = logs

\* a returned record whose raw id has high bits set, taken through the allow-list
Wit_C1 ==
    /\ Returned
    /\ specificEventIDs # <<>>
    /\ \E i \in 1..Len(result) : raws[i][1] # 0 /\ result[i].EventID = U32(4625)

\* C2: with a non-empty allow-list every record of the result has its masked id
\* in the list; with an empty allow-list every record the walker decoded with a
\* valid length is in the result.
Thm_C2 ==
    /\ specificEventIDs # <<>> =>
          \A i \in 1..Len(logs) : logs[i].EventID \in SeqRange(specificEventIDs)
    /\ specificEventIDs = <<>> => Len(logs) = scanned

\* a filtered collection that kept one record and dropped another
Wit_C2 ==
    /\ ReturnedNil
    /\ specificEventIDs # <<>>
    /\ Len(result) > 0
    /\ scanned > Len(result)

\* C3 as stated: with maxEvents > 0 and more records in the channel than
\* maxEvents, the returned result has exactly min(maxEvents, count) records.
Orig_C3 ==
    (ReturnedNil /\ maxEvents > 0 /\ Len(log) > maxEvents)
        => Len(result) = Min(maxEvents, Len(log))

\* C3 amended: under the same premise the result never exceeds maxEvents, and
\* for a log of well-formed records a return without error has exactly
\* min(maxEvents, number of records whose masked id passes the allow-list).
Thm_C3 ==
    (maxEvents > 0 /\ Len(log) > maxEvents) =>
        /\ Len(logs) <= maxEvents
        /\ Len(result) <= maxEvents
        /\ ReturnedNil /\ AllWellFormed(log) =>
              Len(result) = Min(maxEvents, Len(AcceptedOf(log)))

\* the cap cut a filtered collection short of the matching records
Wit_C3 ==
    /\ ReturnedNil
    /\ AllWellFormed(log)
    /\ maxEvents > 0
    /\ Len(log) > maxEvents
    /\ Len(result) = maxEvents
    /\ Len(AcceptedOf(log)) > maxEvents

\* C4: for a log of well-formed records the result is the first k records whose
\* masked id passes the allow-list, in log order, k the capped target; records
\* that do not match are scanned without counting, and the walk stops at the
\* record that completes the k matches.
Thm_C4 ==
    AllWellFormed(log) =>
        /\ scanned <= Len(log)
        /\ Contents(logs) = AcceptedOf(SubSeq(log, 1, scanned))
        /\ Len(logs) <= Target
        /\ Len(logs) = Target /\ scanned > 0 => Accepted(log[scanned])
        /\ ReturnedNil => Contents(result) = FirstK(AcceptedOf(log), Target)

\* ids 4624, 4648, 4625 with maxEvents = 2 and allow-list [4624, 4625]
Wit_C4 ==
    /\ ReturnedNil
    /\ log = <<"RecA", "RecB", "RecC">>
    /\ maxEvents = 2
    /\ specificEventIDs = <<U32(4624), U32(4625)>>
    /\ Len(result) = 2
    /\ result[1].EventID = U32(4624)
    /\ result[2].EventID = U32(4625)
    /\ scanned = 3

\* C5 as stated: a buffer filled with one record of invalid declared length
\* followed by two well-formed records yields exactly the two well-formed
\* records, in order (no filter, no cap in the way).
Orig_C5 ==
    (/\ pc = "read"
     /\ lastRead = "ERROR_SUCCESS"
     /\ calls.read = 1
     /\ Len(log) = 3
     /\ srvPos = 3
     /\ ~WellFormed(log[1])
     /\ WellFormed(log[2])
     /\ WellFormed(log[3])
     /\ specificEventIDs = <<>>
     /\ maxEvents = 0)
        => Contents(logs) = <<Content(log[2]), Content(log[3])>>

\* C6: after an insufficient-buffer answer the buffer is reallocated to the
\* reported size and the same read is retried with nothing consumed and nothing
\* returned; the signal is never what the call returns on; and a collection
\* that grew its buffer returns, for a log of well-formed records, the same
\* records as the channel holds them (what a run without growth returns).
Thm_C6 ==
    [][/\ (lastRead' = "ERROR_INSUFFICIENT_BUFFER" /\ calls'.read = calls.read + 1) =>
             /\ pc' = "read"
             /\ bufferSize' = bytesNeeded'
             /\ buffer'.len = bytesNeeded'
             /\ srvPos' = srvPos
             /\ logs' = logs
             /\ err' = "nil"
       /\ pc' = "done" => lastRead' # "ERROR_INSUFFICIENT_BUFFER"
       /\ (pc' = "done" /\ err' = "nil" /\ grows' > 0 /\ AllWellFormed(log')) =>
             Contents(result') = FirstK(AcceptedOf(log'), Target')
      ]_vars

\* a collection that grew its buffer and returned the large record between two others
Wit_C6 ==
    /\ ReturnedNil
    /\ grows > 0
    /\ bufferSize > InitialBufferSize
    /\ log = <<"RecA", "RecBig", "RecC">>
    /\ Len(result) = 3

\* C7: a no-more-items answer ends the loop; the call returns the records
\* decoded so far and a nil error, whatever came before.
Thm_C7 ==
    [][(lastRead' = "ERROR_NO_MORE_ITEMS" /\ calls'.read = calls.read + 1) =>
          /\ pc' = "done"
          /\ err' = "nil"
          /\ result' = logs
          /\ logs' = logs
      ]_vars

\* end of log met after two reads, with records collected and the target not reached
Wit_C7 ==
    /\ Returned
    /\ lastRead = "ERROR_NO_MORE_ITEMS"
    /\ calls.read > 2
    /\ Len(result) > 0
    /\ Len(result) < totalRecords

\* C8: any other read failure ends the call at once with a non-nil error and
\* exactly the records of the earlier reads; no read follows.
Thm_C8 ==
    [][/\ (lastRead' = "ERROR_OTHER" /\ calls'.read = calls.read + 1) =>
             /\ pc' = "done"
             /\ err' # "nil"
             /\ result' = logs
             /\ logs' = logs
       /\ pc = "done" => calls'.read = calls.read
      ]_vars

\* a read failure after a read that brought records
Wit_C8 ==
    /\ Returned
    /\ lastRead = "ERROR_OTHER"
    /\ err # "nil"
    /\ calls.read > 1
    /\ Len(result) > 0

\* C9: once opened, the handle is closed exactly once on every return, not
\* before, and no count or read call is made on a closed handle.
Thm_C9 ==
    /\ calls.close <= 1
    /\ lateCalls = 0
    /\ (openErrno = "ERROR_SUCCESS" /\ pc = "done") => (calls.close = 1 /\ handle = "closed")
    /\ (openErrno = "ERROR_SUCCESS" /\ pc # "done") => (calls.close = 0 /\ handle = "open")

\* the handle closed on the return that follows a read failure
Wit_C9 ==
    /\ Returned
    /\ openErrno = "ERROR_SUCCESS"
    /\ lastRead = "ERROR_OTHER"
    /\ calls.read > 0
    /\ calls.close = 1

\* C10: a failed open returns no records and an error, with no count, read or
\* close call; the error of a channel that is not registered differs from the
\* error of every other open failure.
Thm_C10 ==
    (Returned /\ openErrno \notin {"none", "ERROR_SUCCESS"}) =>
        /\ result = <<>>
        /\ err # "nil"
        /\ calls = [open |-> 1, count |-> 0, read |-> 0, close |-> 0]
        /\ handle = "none"
        /\ (err = "event log not found") <=> (openErrno = "ERROR_FILE_NOT_FOUND")

\* the open of a channel that is not registered
Wit_C10 ==
    /\ Returned
    /\ openErrno = "ERROR_FILE_NOT_FOUND"
    /\ err = "event log not found"
    /\ Len(log) > 0

\* --------------------------------------------------------------------- C11
\* C11: when the query for the number of records fails after a successful
\* open, the collector returns an error and no records, and it has issued no
\* read call.
Thm_C11 ==
    countRet = "zero" =>
        /\ openErrno = "ERROR_SUCCESS"
        /\ Returned
        /\ err # "nil"
        /\ result = <<>>
        /\ calls.read = 0
        /\ srvPos = 0

\* the count query has failed on a channel that holds records
Wit_C11 == countRet = "zero" /\ Returned /\ Len(log) = MaxLog /\ calls.count = 1

\* --------------------------------------------------------------------- C12
\* C12: with maxEvents <= 0 the target is not capped, so that every
\* allow-listed well-formed record of the channel is returned when reading
\* ends with ERROR_NO_MORE_ITEMS.
Orig_C12 ==
    (maxEvents <= 0 /\ Returned /\ lastRead = "ERROR_NO_MORE_ITEMS") =>
        /\ totalRecords = Len(log)
        /\ \A i \in 1..Len(log) :
              (WellFormed(log[i]) /\ Accepted(log[i])) =>
                  Content(log[i]) \in SeqRange(Contents(result))

\* (the cap alone: on a channel of well-formed
\* records a non-positive maxEvents returns every allow-listed record)
NoCapWellFormed ==
    (maxEvents <= 0 /\ ReturnedNil /\ AllWellFormed(log)) =>
        Contents(result) = AcceptedOf(log)

\* ------------------------------------------- the record the walker built last
Built == recordAt >= 0
LastRecord == DecodeRecord(buffer, recordAt)
LastEvent == NewEvent(LastRecord, buffer, recordAt)
LastFields == StringFields(LastRecord, buffer, recordAt)
\* the scan of the field stopped on a zero code unit inside the buffer
Terminated(field) == field[2] + 1 < buffer.len /\ ReadU16(buffer, field[2]) = 0

\* --------------------------------------------------------------------- C13
\* C13: a string field with no zero code unit within its scan window (a field
\* that runs to the end of the buffer without a terminator included) is
\* excluded from Strings, and the scan reads no index outside the buffer.
Orig_C13 ==
    Built =>
        \A i \in 1..Len(LastFields) :
            /\ LastFields[i][1] < buffer.len
            /\ LastFields[i][2] <= buffer.len
            /\ ~Terminated(LastFields[i]) => ~AppendsString(StrLen(LastFields[i]))

\* --------------------------------------------------------------------- C14
\* the bytes the extractors slice out of the buffer for the last record
LastSource == SourceSpan(buffer, recordAt)
LastData == DataRange(LastRecord, buffer, recordAt)
Sliced ==
    (LastSource[1]..(LastSource[2] - 1))
    \cup UNION {LastFields[i][1]..(LastFields[i][2] - 1) : i \in 1..Len(LastFields)}
    \cup (LastData[1]..(LastData[2] - 1))

\* C14: whatever the untrusted 32-bit header fields hold, wrap-around of
\* offset+StringOffset and of offset+DataOffset+DataLength included, every
\* buffer index the extractors read lies inside the buffer and every slice
\* has start <= end.
Thm_C14 ==
    Built =>
        /\ recordAt + sizeof_EVENTLOGRECORD <= buffer.len
        /\ Sliced \subseteq 0..(buffer.len - 1)
        /\ LastSource[1] < buffer.len /\ LastSource[1] <= LastSource[2]
        /\ LastSource[2] <= buffer.len
        /\ \A i \in 1..Len(LastFields) :
              /\ LastFields[i][1] < buffer.len
              /\ LastFields[i][1] <= LastFields[i][2]
              /\ LastFields[i][2] <= buffer.len
        /\ LastData[1] <= LastData[2] /\ LastData[2] <= buffer.len

\* a record at offset 80 whose StringOffset and DataOffset wrap to positions
\* before the record, and from which a string and payload bytes were taken
Wit_C14 ==
    /\ Built /\ recordAt > 0
    /\ LastRecord.StringOffset[1] = 65535
    /\ LastRecord.DataOffset[1] = 65535
    /\ LastEvent.Strings # <<>>
    /\ Len(LastEvent.Data) = 4

\* --------------------------------------------------------------------- C15
\* the buffer bytes that end up in a field of the last event: the source name
\* when it was converted, the strings that were appended, the payload
BuiltFrom ==
    (IF ConvertsSource((LastSource[2] - LastSource[1]) \div 2)
     THEN LastSource[1]..(LastSource[2] - 1) ELSE {})
    \cup UNION {LastFields[i][1]..(LastFields[i][2] - 1) :
                   i \in {j \in 1..Len(LastFields) : AppendsString(StrLen(LastFields[j]))}}
    \cup (LastData[1]..(LastData[2] - 1))

\* C15: after a read that reported bytesRead bytes, no field of a record
\* produced from that read is built from a byte at an index >= bytesRead, so
\* that bytes an earlier, longer read left in the buffer never appear in a
\* later record.
Orig_C15 == Built => BuiltFrom \subseteq 0..(bytesRead - 1)

\* (a byte that an earlier read left behind the bytes of the present read is
\* part of a field of the last event)
StaleByteUsed == Built /\ \E i \in BuiltFrom : i >= bytesRead /\ ByteAt(buffer, i) # 0

\* --------------------------------------------------------------------- C16
\* the name that stands right behind the 56-byte header of the last record
NameBehindHeader ==
    LET start == recordAt + sizeof_EVENTLOGRECORD
        end   == SourceEnd(buffer, start, start)
    IN  UTF16ToString(Units(buffer, start, (end - start) \div 2))

\* C16: GetSourceFromEvent starts its scan at the first byte behind the
\* 56-byte header (offset+56), reads code units up to a zero unit, and
\* returns the decoded name when it is non-empty.
Orig_C16 ==
    Built =>
        /\ LastSource[1] = recordAt + sizeof_EVENTLOGRECORD
        /\ NameBehindHeader # <<>> => LastEvent.SourceName = NameBehindHeader

\* --------------------------------------------------------------------- C17
\* no name was converted from the buffer: the fallback chain decides
FellBack == Built /\ ~ConvertsSource((LastSource[2] - LastSource[1]) \div 2)
Classic == logName = System \/ logName = Application \/ logName = Security
HasSlash(name) == \E i \in 1..Len(name) : name[i] = 47
\* r is what stands in name before its first '/', all of name when it has none
IsFirstSegment(r, name) ==
    /\ Len(r) <= Len(name)
    /\ SubSeq(name, 1, Len(r)) = r
    /\ ~HasSlash(r)
    /\ Len(r) = Len(name) \/ name[Len(r) + 1] = 47

\* C17 as stated: when no name decodes from the buffer the result is the
\* channel name for System, Application and Security; otherwise, for any
\* channel name that contains a '/', the segment before the first '/';
\* otherwise "EventLog"; and it is never empty.
Orig_C17 ==
    FellBack =>
        /\ LastEvent.SourceName # <<>>
        /\ Classic => LastEvent.SourceName = logName
        /\ (~Classic /\ HasSlash(logName)) => IsFirstSegment(LastEvent.SourceName, logName)
        /\ (~Classic /\ ~HasSlash(logName)) => LastEvent.SourceName = EventLog

\* C17 amended: when no name decodes from the buffer the result is the
\* channel name for System, Application and Security; otherwise, for a
\* channel name that starts with "Microsoft-Windows-", what stands before its
\* first '/' (the whole name when it has no '/'); otherwise "EventLog", also
\* for a name that contains a '/'; and it is never empty.
Thm_C17 ==
    FellBack =>
        /\ LastEvent.SourceName # <<>>
        /\ Classic => LastEvent.SourceName = logName
        /\ (~Classic /\ HasPrefix(logName, MicrosoftWindows)) =>
              IsFirstSegment(LastEvent.SourceName, logName)
        /\ (~Classic /\ ~HasPrefix(logName, MicrosoftWindows)) =>
              LastEvent.SourceName = EventLog

\* the fallback produced "Microsoft-Windows-Sysmon" for the Sysmon channel
Wit_C17 ==
    /\ FellBack
    /\ logName = SysmonChannel
    /\ LastEvent.SourceName = MicrosoftWindows \o <<83, 121, 115, 109, 111, 110>>

\* --------------------------------------------------------------------- C18
\* C18: the string-list extractor walks at most NumStrings null-terminated
\* fields in sequence from offset+StringOffset, each scan capped at 32768
\* code units; it appends a field only when its length is 1..16383 code units
\* and skips a field of length zero or >= 16384; it stops when the cursor
\* leaves the buffer; Strings keeps the order of the fields and is no longer
\* than NumStrings.
Orig_C18 ==
    Built =>
        /\ Len(LastFields) <= LastRecord.NumStrings
        /\ Len(LastEvent.Strings) <= LastRecord.NumStrings
        /\ LastFields # <<>> =>
              U32(LastFields[1][1]) = Add32(U32(recordAt), LastRecord.StringOffset)
        /\ \A i \in 1..Len(LastFields) :
              /\ LastFields[i][1] < buffer.len
              /\ StrLen(LastFields[i]) <= 32768
              \* a field begins where the one before it ended: behind its
              \* terminating zero code unit
              /\ i > 1 => /\ LastFields[i][1] = LastFields[i - 1][2] + 2
                          /\ ReadU16(buffer, LastFields[i - 1][2]) = 0
        /\ LastEvent.Strings =
              LET kept == SelectSeq(LastFields,
                             LAMBDA f : StrLen(f) >= 1 /\ StrLen(f) <= 16383)
              IN  [i \in 1..Len(kept) |->
                      UTF16ToString(Units(buffer, kept[i][1], StrLen(kept[i])))]

\* --------------------------------------------------------------------- C19
Slice(start, end) == [i \in 1..(end - start) |-> ByteAt(buffer, start + i - 1)]

\* buffer[o+DataOffset .. min(o+DataOffset+DataLength, len(buffer))) for the
\* last record, empty when the range is degenerate; the sums are those of the
\* uint32 operands, modulo 2^32
ClaimedData ==
    LET len   == U32(buffer.len)
        start == Add32(U32(recordAt), LastRecord.DataOffset)
        sum   == Add32(start, LastRecord.DataLength)
        end   == IF Lt32(len, sum) THEN len ELSE sum
    IN  IF ~Lt32(start, len) \/ ~Lt32(start, end) THEN <<>>
        ELSE Slice(ToNat(start), ToNat(end))

\* C19 as stated: the payload is a copy of
\* buffer[o+DataOffset .. min(o+DataOffset+DataLength, len(buffer))), empty
\* when the start is at or past the end of the buffer or the clamped length
\* is not positive, and never longer than DataLength.
Orig_C19 ==
    Built =>
        /\ LastEvent.Data = ClaimedData
        /\ ~Lt32(LastRecord.DataLength, U32(Len(LastEvent.Data)))

\* C19 amended: the payload is empty when DataOffset = 0 or DataLength = 0;
\* otherwise it is a copy of
\* buffer[o+DataOffset .. min(o+DataOffset+DataLength, len(buffer))), the sums
\* taken modulo 2^32, empty when the start is at or past the end of the
\* buffer or the clamped end is not behind the start.  It is never longer
\* than DataLength.
Thm_C19 ==
    Built =>
        /\ LastEvent.Data =
              IF LastRecord.DataOffset = U32(0) \/ LastRecord.DataLength = U32(0)
              THEN <<>> ELSE ClaimedData
        /\ ~Lt32(LastRecord.DataLength, U32(Len(LastEvent.Data)))

\* a payload that the end of the buffer cut short of DataLength
Wit_C19 ==
    /\ Built
    /\ LastEvent.Data # <<>>
    /\ LastRecord.DataOffset[1] = 0
    /\ recordAt + ToNat(LastRecord.DataOffset) + Len(LastEvent.Data) = buffer.len
    /\ Lt32(U32(Len(LastEvent.Data)), LastRecord.DataLength)

\* --------------------------------------------------------------------- C20
\* the proleptic-Gregorian date and time of day of t seconds after
\* 1970-01-01 00:00:00 UTC
Civil(t) ==
    LET z    == t \div 86400 + 719468
        era  == z \div 146097
        doe  == z - era * 146097
        yoe  == (doe - doe \div 1460 + doe \div 36524 - doe \div 146096) \div 365
        doy  == doe - (365 * yoe + yoe \div 4 - yoe \div 100)
        mp   == (5 * doy + 2) \div 153
        day  == doy - (153 * mp + 2) \div 5 + 1
        mon  == IF mp < 10 THEN mp + 3 ELSE mp - 9
        year == yoe + era * 400 + (IF mon <= 2 THEN 1 ELSE 0)
        sod  == t % 86400
    IN  <<year, mon, day, sod \div 3600, (sod % 3600) \div 60, sod % 60>>

\* C20: WindowsTimeToTime gives the proleptic-Gregorian calendar value of its
\* argument for every input; 1700000000 gives 2023-11-14 22:13:20.
Orig_C20 ==
    timeString # <<>> =>
        /\ timeString = Civil(windowsTime)
        /\ windowsTime = 1700000000 => timeString = <<2023, 11, 14, 22, 13, 20>>

\* ------------------------------------------------------------------- C21
\* the Length field of the header at the cursor
DeclaredLength == ReadU32(buffer, offset)

\* C21: in the record walk every iteration that decodes a header moves the
\* cursor forward: by exactly 8, with nothing appended, when the declared
\* length is below 56 or above bytesRead - offset, and by exactly the declared
\* length otherwise; with fewer than 56 bytes left at the cursor the walk stops
\* with no error and the cursor where it was; the cursor never passes
\* bytesRead, and a header is decoded only where all its 56 bytes lie below
\* bytesRead.
Thm_C21 ==
    [][pc = "walk" =>
          IF bytesRead - offset < sizeof_EVENTLOGRECORD
          THEN /\ pc' = "read"
               /\ offset' = offset
               /\ logs' = logs
               /\ recordAt' = recordAt
          ELSE /\ offset' > offset
               /\ offset' <= bytesRead
               /\ pc' \in {"walk", "read"}
               /\ IF \/ Lt32(DeclaredLength, U32(56))
                     \/ Lt32(U32(bytesRead - offset), DeclaredLength)
                  THEN /\ offset' = offset + 8
                       /\ logs' = logs
                       /\ recordAt' = recordAt
                  ELSE /\ offset' = offset + ToNat(DeclaredLength)
                       /\ recordAt' = offset
                       /\ recordAt' + sizeof_EVENTLOGRECORD <= bytesRead
      ]_vars

\* a walk that took a valid record, then stepped by 8 through a record of
\* invalid length, and stopped with fewer than 56 bytes left and no error
Wit_C21 ==
    /\ pc = "read"
    /\ lastRead = "ERROR_SUCCESS"
    /\ Built
    /\ offset > recordAt + ToNat(LastRecord.Length)
    /\ bytesRead - offset \in 1..(sizeof_EVENTLOGRECORD - 1)
    /\ err = "nil"

\* ------------------------------------------------------------------- C22
\* C22: with the target of the collection being maxEvents when it is positive
\* and below the record count, and the record count otherwise (the count
\* being queried once, after the open), the collected records are never more
\* than the target; once they number the target the walker appends nothing
\* and no read call is issued, whatever the log still holds; and a collection
\* whose target is 0 returns an empty result and a nil error without a read.
Thm_C22 ==
    [][/\ calls'.count <= 1
       /\ pc' \in {"read", "walk", "done"} /\ countRet' = "nonzero" => totalRecords' = Target'
       /\ Len(logs') <= Target'
       /\ Len(result') <= Target'
       /\ Len(logs) >= Target =>
             /\ logs' = logs
             /\ calls'.read = calls.read
       /\ (pc' = "done" /\ countRet' = "nonzero" /\ Target' = 0) =>
             /\ calls'.read = 0
             /\ result' = <<>>
             /\ err' = "nil"
      ]_vars

\* a collection that returned at its target while the log still held a record
\* never handed out and the buffer a record never walked
Wit_C22 ==
    /\ ReturnedNil
    /\ Target > 0
    /\ Len(result) = Target
    /\ srvPos < Len(log)
    /\ offset < bytesRead
    /\ calls.read = 1

\* ------------------------------------------------------------------- C23
\* C23: every call of CollectWindowsEventLogs returns, whatever answers the
\* service gives on a log of finitely many records and in whatever order.  On
\* the way, a retry after insufficient-buffer is made with a buffer larger
\* than the one before, of the reported size and never of length 0; a
\* successful read consumes records of the log, also when it adds none to the
\* result; and no read is issued with a buffer of length 0.
Thm_C23 ==
    /\ <>Returned
    /\ [][/\ (lastRead' = "ERROR_INSUFFICIENT_BUFFER" /\ calls'.read = calls.read + 1) =>
                /\ bytesNeeded' > bufferSize
                /\ bufferSize' = bytesNeeded'
                /\ buffer'.len = bufferSize'
                /\ pc' = "read"
          /\ (lastRead' = "ERROR_SUCCESS" /\ calls'.read = calls.read + 1) =>
                /\ srvPos' > srvPos
                /\ srvPos' <= Len(log)
                /\ bytesRead' > 0
          /\ calls'.read = calls.read + 1 => buffer.len > 0 /\ buffer.len = bufferSize
          /\ pc' \in {"read", "walk"} => buffer'.len > 0
         ]_vars

\* a call that returned after a read that added nothing to the result, a
\* retry with a grown buffer and a second read that added nothing
Wit_C23 ==
    /\ ReturnedNil
    /\ log = <<"RecB", "RecBig", "RecB">>
    /\ specificEventIDs # <<>>
    /\ grows = 1
    /\ calls.read = 5
    /\ Len(result) = 1
    /\ lastRead = "ERROR_NO_MORE_ITEMS"

\* ------------------------------------------------------------------- C24
IsPrefix(a, b) == Len(a) <= Len(b) /\ SubSeq(b, 1, Len(a)) = a

\* the result lengths of the collections that returned no error, summed
RECURSIVE SumOfResults(_)
SumOfResults(cs) ==
    IF cs = <<>> THEN 0
    ELSE (IF cs[1].err = "nil" THEN cs[1].len ELSE 0) + SumOfResults(Tail(cs))

\* the channels of the configuration that the flags do not skip
NotSkipped ==
    {k \in 1..Len(channelConfigs) :
        /\ ~(onlyAvailable /\ ~channelConfigs[k].Available)
        /\ (specificChannel = <<>> \/ EqualFold(channelConfigs[k].Name, specificChannel))}

\* C24: main collects the channels one after another in the order of the
\* configuration; whatever a collection returns, what was written before stays
\* as it was, the sweep goes on to every later channel the flags do not skip,
\* and totalEventsCollected is the sum of the result lengths of exactly the
\* collections that returned no error.
Thm_C24 ==
    [][/\ IsPrefix(output, output')
       /\ \A i, j \in 1..Len(collected') : i < j => collected'[i].channel < collected'[j].channel
       /\ {collected'[i].channel : i \in 1..Len(collected')} =
             {k \in NotSkipped' : k < channel'}
       /\ pc' \notin {"idle", "end"} => channel' \in NotSkipped' /\ logName' = channelConfigs[channel'].Name
       /\ pc' = "end" => channel' = Len(channelConfigs) + 1
       /\ totalEventsCollected' = SumOfResults(collected')
       /\ pc' = "end" => output'[Len(output')] = Summary(SumOfResults(collected'))
      ]_vars

\* a sweep that ended after a collection that failed with records already
\* read, and a later collection that returned a record
Wit_C24 ==
    /\ pc = "end"
    /\ Len(collected) = MaxChannels
    /\ collected[1].err # "nil"
    /\ collected[1].len > 0
    /\ collected[MaxChannels].err = "nil"
    /\ collected[MaxChannels].len = 1
    /\ totalEventsCollected = 1

====
